---- MODULE Spec2Model ----
(***************************************************************************)
(* Verification model of the customer-support orchestration engine:        *)
(*   - the coordinator workflow   (src/agent/agentic_system.py,            *)
(*                                 src/agent/agent_tools.py)               *)
(*   - the sequential pipeline    (src/agentWorkflow/agentSystem.py,       *)
(*                                 src/agentWorkflow/agents.py)            *)
(*   - the retrieval engine       (src/configs/database.py)                *)
(*   - the server handing requests to the coordinator (src/app/main.py)    *)
(*                                                                         *)
(* Spec runs one request of either orchestrator, GraphSpec the compiled    *)
(* graph on any AgentState, ServerSpec successive coordinator requests     *)
(* with their checkpoints, SearchSpec one call of search_documents.        *)
(*                                                                         *)
(* Text is a sequence of tokens; formatting a template concatenates the    *)
(* template's literal tokens with the texts substituted into it.  The      *)
(* generative capability, the embedding provider and the document store    *)
(* are external: every call to them draws its outcome nondeterministically *)
(* (a text, or an exception).                                              *)
(***************************************************************************)
EXTENDS Integers, Sequences, FiniteSets, TLC

VARIABLES
    system,          \* which orchestrator serves the request
    customer_query,  \* the argument of process_support_query
    api_key,         \* config.OPENAI_API_KEY is set (truthy)
    is_connected,    \* db_manager.is_connected (and collection is not None)
    store,           \* the documents of the collection, in scan order
    pc,              \* position inside process_support_query
    state,           \* coordinator: the AgentState held by the graph run
    locals,          \* sequential: the locals of process_support_query, and (ghost)
                     \* the stage calls it has made
    result,          \* the value process_support_query returned
    outcome,         \* "running" | "returned" | "raised"
    supersteps,      \* graph supersteps executed in this run
    populated,       \* ghost: every action dispatched so far produced non-empty output
    fault,           \* ghost: the exception that reached the orchestrator's except clause
    thread_ids,      \* ghost: the thread_id each coordinator request so far streamed under
    checkpoints,     \* self.memory: what the checkpointer holds under each thread_id
    search_call,     \* a direct call of search_documents: its arguments and its outcome
    stage_call,      \* a direct call of a stage function or tool: arguments and outcome
    http_request     \* the body POSTed to /support-query and the status answered

vars == <<system, customer_query, api_key, is_connected, store, pc, state, locals,
          result, outcome, supersteps, populated, fault, thread_ids, checkpoints,
          search_call, stage_call, http_request>>

----------------------------------------------------------------------------
(* Bounds *)

\* langgraph stops a run that has not finished after recursion_limit supersteps
\* (library default 25) by raising GraphRecursionError; the model uses a smaller limit.
RecursionLimit == 6

\* documents in the collection, and the largest limit, of a direct search call
MaxDocs == 3
MaxLimit == 5

\* requests the server hands to the coordinator, one after the other
MaxRequests == 2

----------------------------------------------------------------------------
(* Values *)

\* Python None for the Optional[str] fields of AgentState
None == <<"$None">>
\* the outcome "the call raised an exception"
Raise == <<"$raise">>
\* no tool selected: the key "tool_to_run" is absent from the state
NoTool == "no_tool"

WS == " "
QUOTE == "\""

\* request texts: non-empty after validation (SupportQuery.validate_query)
Queries == {<<"drone">>, <<"app">>}

\* what the generative capability may answer: whitespace only, or some text
LLMContents == {<<WS>>, <<"llm">>}
LLMOutcomes == LLMContents \cup {Raise}

\* variant: the test "is not None" in place of truthiness
Truthy_notNone(x) == x # None

\* Python truthiness of an Optional[str] or a list
Truthy(x) == x # None /\ x # <<>>

RECURSIVE LStrip(_, _)
LStrip(t, ch) == IF t # <<>> /\ Head(t) = ch THEN LStrip(Tail(t), ch) ELSE t

RECURSIVE RStrip(_, _)
RStrip(t, ch) ==
    IF t # <<>> /\ t[Len(t)] = ch THEN RStrip(SubSeq(t, 1, Len(t) - 1), ch) ELSE t

\* str.strip(): leading and trailing whitespace removed
Strip(t) == RStrip(LStrip(t, WS), WS)
\* str.strip('"')
StripQuotes(t) == RStrip(LStrip(t, QUOTE), QUOTE)

----------------------------------------------------------------------------
(* Retrieval engine: DatabaseManager.search_documents *)

SIMILARITY_THRESHOLD == 30   \* 0.3, in hundredths

\* a stored document: its content, whether it has an embedding, and the cosine
\* similarity of that embedding to the query
Doc(c, s) == [content |-> c, similarity |-> s, embedding |-> TRUE]
NoEmbeddingDoc(c) == [content |-> c, similarity |-> 0, embedding |-> FALSE]

SearchResult(d) == [content |-> d.content, similarity |-> d.similarity]

\* variant: d goes before its equals
RECURSIVE InsertDesc_before(_, _)
InsertDesc_before(sorted, d) ==
    IF sorted = <<>> THEN <<d>>
    ELSE IF Head(sorted).similarity > d.similarity
         THEN <<Head(sorted)>> \o InsertDesc_before(Tail(sorted), d)
         ELSE <<d>> \o sorted

\* insert d into a list sorted by descending similarity, after its equals (stable)
RECURSIVE InsertDesc(_, _)
InsertDesc(sorted, d) ==
    IF sorted = <<>> THEN <<d>>
    ELSE IF Head(sorted).similarity >= d.similarity
         THEN <<Head(sorted)>> \o InsertDesc(Tail(sorted), d)
         ELSE <<d>> \o sorted

\* variant: the list is left in scan order
SortDesc_unsorted(rs) == rs

\* results.sort(key=lambda x: x.similarity, reverse=True): a stable sort
RECURSIVE SortDesc(_)
SortDesc(rs) ==
    IF rs = <<>> THEN <<>>
    ELSE InsertDesc(SortDesc(SubSeq(rs, 1, Len(rs) - 1)), rs[Len(rs)])

\* variant: the threshold itself is excluded
AboveThreshold_strict(docs) ==
    LET kept == SelectSeq(docs, LAMBDA d : d.embedding /\ d.similarity > SIMILARITY_THRESHOLD)
    IN  [i \in 1..Len(kept) |-> SearchResult(kept[i])]

\* the scan loop: a result for every document that has an embedding and scores
\* at or above the threshold, in scan order
AboveThreshold(docs) ==
    LET kept == SelectSeq(docs, LAMBDA d : d.embedding /\ d.similarity >= SIMILARITY_THRESHOLD)
    IN  [i \in 1..Len(kept) |-> SearchResult(kept[i])]

\* variant: one entry more than the limit
Truncate_plus(rs, n) == SubSeq(rs, 1, IF Len(rs) < n + 1 THEN Len(rs) ELSE n + 1)

\* results[:max_results]
Truncate(rs, n) == SubSeq(rs, 1, IF Len(rs) < n THEN Len(rs) ELSE n)

\* search_documents with an explicit max_results; scan is what the embedding call
\* and the collection scan did: "ok" or "fail" (any exception inside the try)
search_documents(docs, connected, scan, max_results) ==
    IF ~connected THEN <<>>
    ELSE IF scan = "fail" THEN <<>>
    ELSE Truncate(SortDesc(AboveThreshold(docs)), max_results)

Contents(rs) == [i \in 1..Len(rs) |-> rs[i].content]

Stores == { <<>>,
            <<Doc("docA", 81), Doc("docB", 62), Doc("docC", 29)>>,
            <<Doc("docC", 29)>> }


----------------------------------------------------------------------------
(* Coordinator tools: src/agent/agent_tools.py.  "llm" is the outcome of    *)
(* self.llm.invoke: a content text or Raise; key is "self.llm is not None". *)

Num(n) == <<ToString(n)>>

TriageFallbackText(query) ==
    <<"Technical support query regarding: ">> \o query

\* variant: a failed generative call is reported as an error text
TriageQueryTool_run_error(query, key, llm) ==
    IF key
    THEN IF llm = Raise THEN <<"Error in triage tool">> ELSE Strip(llm)
    ELSE TriageFallbackText(query)

TriageQueryTool_run(query, key, llm) ==
    IF key
    THEN IF llm = Raise THEN TriageFallbackText(query) ELSE Strip(llm)
    ELSE TriageFallbackText(query)

\* search is what db_manager.search_documents(technical_query, max_results=5)
\* gave back through the event loop: a result list, or Raise.  The value is the
\* "sources" entry of the dict the tool returns.
KnowledgeSearchTool_run(search) ==
    IF search = Raise THEN <<>> ELSE Contents(search)

NoSourcesText ==
    <<"Unable to find specific information in the knowledge base. Please contact technical support for further assistance.">>

DraftSolutionTool_run(technical_query, sources, key, llm) ==
    IF sources = <<>> THEN NoSourcesText
    ELSE IF key
    THEN IF llm = Raise
         THEN <<"Error generating draft solution for: ">> \o technical_query
                  \o <<". Please contact support.">>
         ELSE Strip(llm)
    ELSE <<"Technical draft for: ">> \o technical_query \o <<". Based on ">>
             \o Num(Len(sources)) \o <<" sources.">>

CustomerResponseTool_run(original_query, draft_solution, sources, key, llm) ==
    IF key
    THEN IF llm = Raise
         THEN <<"I apologize for the inconvenience with: ">> \o original_query
                  \o <<". Please contact our support team for assistance.">>
         ELSE Strip(llm)
    ELSE <<"I understand you're having trouble with: ">> \o original_query
             \o <<". Here's a simplified explanation of the steps: ">> \o draft_solution
             \o <<". If you run into any issues, please let us know.">>

\* KnowledgeSearchInput.max_results default, passed on by KnowledgeSearchTool._run
ToolMaxResults == 5

ToolNames == {"triage_query", "search_knowledge_base", "generate_draft_solution",
              "generate_customer_response"}

----------------------------------------------------------------------------
(* Transcript entries *)

Msg(t, calls, id, content) ==
    [type |-> t, tool_calls |-> calls, tool_call_id |-> id, content |-> content]

SystemMessage == Msg("system", <<>>, 0, <<"Coordinator agent for customer support.">>)
\* an assistant entry carrying one tool call
CallMessage(id, name) == Msg("ai", <<[id |-> id, name |-> name]>>, 0, <<>>)
ToolMessage(id, content) == Msg("tool", <<>>, id, content)

\* the dict of the search tool as the text of a tool message, and back
\* (json.loads(content) if content.startswith("{") else {}).get("sources", [])
JsonDumps(sources) == <<"{">> \o sources \o <<"}">>
JsonSources(content) ==
    IF content # <<>> /\ Head(content) = "{"
    THEN IF Len(content) >= 2 /\ content[Len(content)] = "}"
         THEN SubSeq(content, 2, Len(content) - 1)
         ELSE <<>>
    ELSE <<>>


----------------------------------------------------------------------------
(* Coordinator workflow: src/agent/agentic_system.py *)

Steps == <<"start", "triaging", "searching", "drafting", "finalizing", "complete">>
StepSet == {Steps[i] : i \in 1..Len(Steps)}
Rank(step) == CHOOSE i \in 1..Len(Steps) : Steps[i] = step

\* variant: technical_query seeded with the customer query
initial_state_seeded(query) ==
    [messages |-> <<>>,
     original_query |-> query,
     technical_query |-> query,
     sources |-> <<>>,
     draft_solution |-> None,
     final_answer |-> None,
     current_step |-> "start",
     error |-> None,
     tool_to_run |-> NoTool]

\* AgentState as process_support_query builds it (tool_to_run is not yet a key)
initial_state(query) ==
    [messages |-> <<>>,
     original_query |-> query,
     technical_query |-> None,
     sources |-> <<>>,
     draft_solution |-> None,
     final_answer |-> None,
     current_step |-> "start",
     error |-> None,
     tool_to_run |-> NoTool]

\* variant: every advance writes "triaging"
SetStep_triaging(s, step, tool) == [s EXCEPT !.current_step = "triaging", !.tool_to_run = tool]

\* the paired assignments state["current_step"] = ...; state["tool_to_run"] = ...
SetStep(s, step, tool) == [s EXCEPT !.current_step = step, !.tool_to_run = tool]

\* _coordinator_agent: one coordinator cycle
coordinator_agent(s) ==
    LET messages == IF s.messages = <<>> \/ s.messages[1].type # "system"
                    THEN <<SystemMessage>> \o s.messages
                    ELSE s.messages
        step == s.current_step
        decided ==
            IF step = "start"
            THEN SetStep(s, "triaging", "triage_query")
            ELSE IF step = "triaging" /\ s.technical_query = None
            THEN [s EXCEPT !.tool_to_run = "triage_query"]
            ELSE IF step = "triaging" /\ Truthy(s.technical_query)
            THEN SetStep(s, "searching", "search_knowledge_base")
            ELSE IF step = "searching" /\ ~Truthy(s.sources)
            THEN [s EXCEPT !.tool_to_run = "search_knowledge_base"]
            ELSE IF step = "searching" /\ Truthy(s.sources)
            THEN SetStep(s, "drafting", "generate_draft_solution")
            ELSE IF step = "drafting" /\ ~Truthy(s.draft_solution)
            THEN [s EXCEPT !.tool_to_run = "generate_draft_solution"]
            ELSE IF step = "drafting" /\ Truthy(s.draft_solution)
            THEN SetStep(s, "finalizing", "generate_customer_response")
            ELSE IF step = "finalizing" /\ ~Truthy(s.final_answer)
            THEN [s EXCEPT !.tool_to_run = "generate_customer_response"]
            ELSE IF step = "finalizing" /\ Truthy(s.final_answer)
            THEN SetStep(s, "complete", NoTool)
            ELSE s
    IN  [decided EXCEPT !.messages = messages]

\* the conditional edge out of the coordinator: the tools node while the step is
\* one of the four active steps, the finalizer otherwise
Route(s) ==
    IF s.current_step \in {"triaging", "searching", "drafting", "finalizing"}
    THEN "tools" ELSE "finalizer"

\* the field a tool's result belongs in
FieldOf(name) ==
    CASE name = "triage_query" -> "technical_query"
      [] name = "search_knowledge_base" -> "sources"
      [] name = "generate_draft_solution" -> "draft_solution"
      [] name = "generate_customer_response" -> "final_answer"

\* one tool result folded into the state (the body of the innermost loop)
ApplyToolResult(s, name, content) ==
    CASE name = "triage_query" -> [s EXCEPT !.technical_query = StripQuotes(content)]
      [] name = "search_knowledge_base" -> [s EXCEPT !.sources = JsonSources(content)]
      [] name = "generate_draft_solution" -> [s EXCEPT !.draft_solution = content]
      [] name = "generate_customer_response" -> [s EXCEPT !.final_answer = content]
      [] OTHER -> s

\* the window of recent transcript entries the fold looks at: messages[-20:]
FoldWindow == 20

\* index of the last transcript entry that carries tool calls, 0 if none:
\* the only entry the search "for prev in reversed(messages)" inspects before
\* its break
LastCallIndex(messages) ==
    LET idx == {i \in 1..Len(messages) : messages[i].tool_calls # <<>>}
    IN  IF idx = {} THEN 0 ELSE CHOOSE i \in idx : \A j \in idx : j <= i

\* name of the first call of entry prev whose id is id, NoTool if none
MatchingCall(prev, id) ==
    LET hits == {k \in 1..Len(prev.tool_calls) : prev.tool_calls[k].id = id}
    IN  IF hits = {} THEN NoTool
        ELSE prev.tool_calls[CHOOSE k \in hits : \A j \in hits : k <= j].name

\* the outer loop "for message in reversed(messages[-20:])", from entry i down
\* to the first entry of the window
RECURSIVE FoldFrom(_, _, _)
FoldFrom(s, i, low) ==
    IF i < low THEN s
    ELSE LET m == s.messages[i]
             last == LastCallIndex(s.messages)
             name == IF m.type = "tool" /\ last > 0
                     THEN MatchingCall(s.messages[last], m.tool_call_id)
                     ELSE NoTool
         IN  FoldFrom(ApplyToolResult(s, name, m.content), i - 1, low)

\* _update_state_from_messages
update_state_from_messages(s) ==
    LET n == Len(s.messages)
        low == IF n > FoldWindow THEN n - FoldWindow + 1 ELSE 1
    IN  FoldFrom(s, n, low)

ApologyText ==
    <<"I apologize, but we're experiencing technical difficulties. Please try again later or contact support.">>

NotFoundText ==
    <<"I couldn't find specific information for your query. Please contact our support team for assistance.">>

\* _finalizer_agent
finalizer_agent(s) ==
    LET u == update_state_from_messages(s)
    IN  IF Truthy(u.error)
        THEN [u EXCEPT !.final_answer = ApologyText, !.sources = <<>>]
        ELSE IF ~Truthy(u.final_answer)
        THEN [u EXCEPT !.final_answer = NotFoundText]
        ELSE u


----------------------------------------------------------------------------
(* Sequential pipeline stages: src/agentWorkflow/agents.py *)

\* the attributes class Config defines (src/configs/config.py); reading any
\* other attribute of config raises AttributeError
ConfigAttrs == {"MONGODB_URL", "DATABASE_NAME", "COLLECTION_NAME", "OPENAI_API_KEY",
                "OPENAI_MODEL", "EMBEDDING_MODEL", "TOP_K", "SIMILARITY_THRESHOLD",
                "HOST", "PORT", "RELOAD", "LOG_LEVEL", "AGENT_TEMPERATURE"}
TOP_K == 3

\* Agent1_TriageSpecialist.process: with a key, _call_openai (which turns its own
\* exception into an error text); without one, the call of the undefined
\* self._mock_response raises AttributeError and process falls back
Agent1_process(query, key, llm) ==
    IF key
    THEN IF llm = Raise
         THEN <<"OpenAI API error in Triage Specialist Agent">>
         ELSE Strip(llm)
    ELSE TriageFallbackText(query)

Agent2_fallback_response(query, sources) ==
    <<"An error occurred while generating a technical draft for your query: '">>
        \o query
        \o <<"'. Please follow general troubleshooting steps or contact technical support. Sources found: ">>
        \o Num(Len(sources))

Expert(draft, sources) == [draft_solution |-> draft, sources |-> sources]

\* Agent2_TechnicalExpert.process.  The argument config.MAX_SOURCES is evaluated
\* inside the try before search_documents is called, and class Config defines no
\* such attribute: the AttributeError goes to the handler of process with sources
\* still empty.  search is the result search_documents would give if the call
\* were made.  _call_openai's handler calls the
\* undefined self._fallback_solution, so a failed generative call reaches the
\* handler of process with the sources already extracted.
Agent2_process(technical_query, search, key, llm) ==
    IF "MAX_SOURCES" \notin ConfigAttrs
    THEN Expert(Agent2_fallback_response(technical_query, <<>>), <<>>)
    ELSE IF search = <<>>
    THEN Expert(NoSourcesText, <<>>)
    ELSE LET sources == Contents(search)
         IN  IF ~key THEN Expert(<<>>, sources)
             ELSE IF llm = Raise
             THEN Expert(Agent2_fallback_response(technical_query, sources), sources)
             ELSE Expert(Strip(llm), sources)

Agent3_mock_response(query, draft_solution) ==
    <<"I understand you're having trouble with: ">> \o query
        \o <<". Here's a simplified explanation of the steps: ">> \o draft_solution
        \o <<". If you run into any issues, please let us know.">>

\* variant: a failed generative call leaves process as an exception
Agent3_process_raising(original_query, draft_solution, sources, key, llm) ==
    IF key
    THEN IF llm = Raise THEN Raise ELSE Strip(llm)
    ELSE Agent3_mock_response(original_query, draft_solution)

\* Agent3_CommunicationSpecialist.process
Agent3_process(original_query, draft_solution, sources, key, llm) ==
    IF key
    THEN IF llm = Raise
         THEN <<"OpenAI API error in Communication Specialist Agent">>
         ELSE Strip(llm)
    ELSE Agent3_mock_response(original_query, draft_solution)

SeqErrorText ==
    <<"I apologize, but we're experiencing some technical difficulties at the moment. Please try again in a few minutes, or feel free to contact our support team directly if you need immediate assistance. We appreciate your patience!">>

\* variant: the handler answers with the draft when one exists
handle_error_draft(query) ==
    [final_answer |-> IF locals.draft_solution # None THEN locals.draft_solution
                      ELSE SeqErrorText,
     sources |-> <<>>]

\* ThreeAgentSupportSystem._handle_error
handle_error(query) == [final_answer |-> SeqErrorText, sources |-> <<>>]

----------------------------------------------------------------------------
(* process_support_query of the two orchestrators *)

Result(answer, sources) == [final_answer |-> answer, sources |-> sources]
NoResult == Result(None, None)

\* variant: the except clause answers with an empty text
CoordinatorFallback_blank == Result(<<>>, <<>>)

\* the except clause of AgenticSupportSystem.process_support_query
CoordinatorFallback == Result(ApologyText, <<>>)

\* "except Exception" of both orchestrators: which exceptions the clause catches
Exceptions == {"ValueError", "RuntimeError"}
\* variant: "except ValueError"
Catches_ValueError(e) == e = "ValueError"
Catches(e) == TRUE
\* what langgraph raises when a run exceeds its supersteps
GraphRecursionError == "GraphRecursionError"

\* the result assembled after the stream has ended
CoordinatorResult(final_state) ==
    LET f == update_state_from_messages(final_state)
    IN  Result(f.final_answer, f.sources)

NoLocals == [technical_query |-> None, draft_solution |-> None, sources |-> <<>>,
             final_answer |-> None, calls |-> <<>>]

\* id(self) of the one instance the module creates (agentic_system)
SelfId == 1

\* hash(customer_query): a function of the text, fixed for the life of the process
HashOf(query) == IF query = <<"drone">> THEN 11 ELSE 22

\* thread_id = f"support_{hash(customer_query)}_{id(self)}"
thread_id(query, self) == <<"support", HashOf(query), self>>

ThreadIds == {thread_id(q, SelfId) : q \in Queries}

\* a thread the checkpointer holds nothing under; writers is a ghost: the
\* requests (by arrival number) whose runs saved under the thread
NoCheckpoint == [state |-> None, writers |-> {}]

\* MemorySaver(): empty at construction
MemorySaver == [t \in ThreadIds |-> NoCheckpoint]

\* the checkpointer saves the state of thread t during request r
put(saved, t, s, r) == [saved EXCEPT ![t] = [state |-> s, writers |-> @.writers \cup {r}]]

\* the state a stream starts from: the keys of the input written over what the
\* thread's checkpoint holds (initial_state has every key but tool_to_run)
StreamStart(input, saved) ==
    IF saved.writers = {} THEN input
    ELSE [input EXCEPT !.tool_to_run = saved.state.tool_to_run]

\* the thread of the request being served
CurrentThread == thread_ids[Len(thread_ids)]

\* the request has been handed to process_support_query: a coordinator request
\* streams under its thread_id, and the input is the first checkpoint
InitThreads ==
    IF system = "coordinator"
    THEN /\ thread_ids = <<thread_id(customer_query, SelfId)>>
         /\ checkpoints = put(MemorySaver, thread_id(customer_query, SelfId), state, 1)
    ELSE /\ thread_ids = <<>>
         /\ checkpoints = MemorySaver

\* the generative outcomes a call can have: drawn only when the capability exists
LLMCalls(key) == IF key THEN LLMOutcomes ELSE {Raise}

\* no direct call of search_documents is in progress
NoSearch == [given |-> FALSE, max_results |-> 1, scan |-> "none", outcome |-> "none",
             results |-> <<>>, previous |-> <<>>]

\* no direct call of a stage function is in progress.  llm and scan are what
\* the generative call and the retrieval did during the call; retrievals and
\* invoked are ghosts: the calls of search_documents the stage made, and
\* whether it called the generative capability
NoStageCall ==
    [fn |-> "none", query |-> <<>>, draft |-> <<>>, sources |-> <<>>,
     llm |-> None, scan |-> "none", retrievals |-> <<>>, invoked |-> FALSE,
     outcome |-> "none", output |-> None, sources_out |-> <<>>]

\* the orchestrator is called directly: no HTTP request is being handled
NoRequest == [body |-> <<>>, status |-> "none"]

InitEnv ==
    /\ customer_query \in Queries
    /\ api_key \in BOOLEAN
    /\ is_connected \in BOOLEAN
    /\ store \in Stores
    /\ locals = NoLocals
    /\ result = NoResult
    /\ outcome = "running"
    /\ supersteps = 0
    /\ populated = TRUE
    /\ fault = "none"
    /\ search_call = NoSearch
    /\ stage_call = NoStageCall
    /\ http_request = NoRequest

Init ==
    /\ InitEnv
    /\ system \in {"coordinator", "sequential"}
    /\ pc = IF system = "coordinator" THEN "coordinator" ELSE "agent1"
    /\ state = initial_state(customer_query)
    /\ InitThreads

env == <<system, customer_query, api_key, is_connected, store, search_call, stage_call,
        http_request>>

\* the coordinator node, then the conditional edge
CoordinatorNode ==
    /\ pc = "coordinator"
    /\ supersteps < RecursionLimit
    /\ state' = coordinator_agent(state)
    /\ pc' = Route(state')
    /\ supersteps' = supersteps + 1
    /\ checkpoints' = put(checkpoints, CurrentThread, state', Len(thread_ids))
    /\ UNCHANGED <<env, locals, result, outcome, populated, fault, thread_ids>>

\* the arguments the selected tool needs are present (its args_schema validates)
ToolArgsOK(s) ==
    CASE s.tool_to_run = "triage_query" -> TRUE
      [] s.tool_to_run = "search_knowledge_base" -> s.technical_query # None
      [] s.tool_to_run = "generate_draft_solution" -> s.technical_query # None
      [] s.tool_to_run = "generate_customer_response" -> s.draft_solution # None
      [] OTHER -> FALSE

\* the text of the tool message the selected tool produces
ToolOutput(s, key, llm, search) ==
    CASE s.tool_to_run = "triage_query" ->
            TriageQueryTool_run(s.original_query, key, llm)
      [] s.tool_to_run = "search_knowledge_base" ->
            JsonDumps(KnowledgeSearchTool_run(search))
      [] s.tool_to_run = "generate_draft_solution" ->
            DraftSolutionTool_run(s.technical_query, s.sources, key, llm)
      [] s.tool_to_run = "generate_customer_response" ->
            CustomerResponseTool_run(s.original_query, s.draft_solution, s.sources, key, llm)

UsesLLM(name) == name # "search_knowledge_base"

\* the tools node: the selected tool runs and its call and result are appended
\* to the transcript; then the edge back to the coordinator
ToolsNode ==
    /\ pc = "tools"
    /\ supersteps < RecursionLimit
    /\ ToolArgsOK(state)
    /\ \E llm \in (IF UsesLLM(state.tool_to_run) THEN LLMCalls(api_key) ELSE {Raise}),
          scan \in (IF UsesLLM(state.tool_to_run) THEN {"ok"} ELSE {"ok", "fail", "raise"}) :
          LET search == IF scan = "raise" THEN Raise
                        ELSE search_documents(store, is_connected, scan, ToolMaxResults)
              content == ToolOutput(state, api_key, llm, search)
              id == Len(state.messages) + 1
              filled == IF UsesLLM(state.tool_to_run) THEN content # <<>>
                        ELSE JsonSources(content) # <<>>
          IN  /\ state' = [state EXCEPT !.messages =
                              @ \o <<CallMessage(id, state.tool_to_run),
                                     ToolMessage(id, content)>>]
              /\ populated' = (populated /\ filled)
    /\ pc' = "coordinator"
    /\ supersteps' = supersteps + 1
    /\ checkpoints' = put(checkpoints, CurrentThread, state', Len(thread_ids))
    /\ UNCHANGED <<env, locals, result, outcome, fault, thread_ids>>

\* the finalizer node, then the edge to END
FinalizerNode ==
    /\ pc = "finalizer"
    /\ supersteps < RecursionLimit
    /\ state' = finalizer_agent(state)
    /\ pc' = "end"
    /\ supersteps' = supersteps + 1
    /\ checkpoints' = put(checkpoints, CurrentThread, state', Len(thread_ids))
    /\ UNCHANGED <<env, locals, result, outcome, populated, fault, thread_ids>>

\* the stream has ended: lines 184-195
ReturnResult ==
    /\ pc = "end"
    /\ result' = CoordinatorResult(state)
    /\ outcome' = "returned"
    /\ pc' = "done"
    /\ UNCHANGED <<env, state, locals, supersteps, populated, fault, thread_ids, checkpoints>>

\* the graph run raises (the tools node fails, or the run has used up its
\* supersteps) and the except clause of process_support_query answers
GraphRaises ==
    /\ pc \in {"coordinator", "tools", "finalizer"}
    /\ pc = "tools" \/ supersteps >= RecursionLimit
    /\ \E e \in (IF supersteps >= RecursionLimit
                  THEN {GraphRecursionError} ELSE Exceptions) :
          /\ fault' = e
          /\ IF Catches(e)
             THEN result' = CoordinatorFallback /\ outcome' = "returned"
             ELSE result' = NoResult /\ outcome' = "raised"
    /\ pc' = "done"
    /\ UNCHANGED <<env, state, locals, supersteps, populated, thread_ids, checkpoints>>

\* variant: the draft stage is handed the customer's query
StageArgs_original(stage) ==
    CASE stage = "agent1" -> <<customer_query>>
      [] stage = "agent2" -> <<customer_query>>
      [] stage = "agent3" -> <<customer_query, locals.draft_solution, locals.sources>>

\* the arguments process_support_query passes to each stage (lines 25, 30, 35-39)
StageArgs(stage) ==
    CASE stage = "agent1" -> <<customer_query>>
      [] stage = "agent2" -> <<locals.technical_query>>
      [] stage = "agent3" -> <<customer_query, locals.draft_solution, locals.sources>>

\* ghost: the call of a stage, with its arguments and whether it returned
StageCall(stage, returned) == [stage |-> stage, args |-> StageArgs(stage), returned |-> returned]

\* Stage 1
Agent1Stage ==
    /\ pc = "agent1"
    /\ \E llm \in LLMCalls(api_key) :
          locals' = [locals EXCEPT
                        !.technical_query = Agent1_process(StageArgs("agent1")[1], api_key, llm),
                        !.calls = Append(@, StageCall("agent1", TRUE))]
    /\ pc' = "agent2"
    /\ UNCHANGED <<env, state, result, outcome, supersteps, populated, fault,
                   thread_ids, checkpoints>>

\* Stage 2
Agent2Stage ==
    /\ pc = "agent2"
    /\ \E llm \in LLMCalls(api_key), scan \in {"ok", "fail"} :
          LET search == search_documents(store, is_connected, scan, TOP_K)
              r == Agent2_process(StageArgs("agent2")[1], search, api_key, llm)
          IN  locals' = [locals EXCEPT !.draft_solution = r.draft_solution,
                                       !.sources = r.sources,
                                       !.calls = Append(@, StageCall("agent2", TRUE))]
    /\ pc' = "agent3"
    /\ UNCHANGED <<env, state, result, outcome, supersteps, populated, fault,
                   thread_ids, checkpoints>>

\* Stage 3 and the return of the result
Agent3Stage ==
    /\ pc = "agent3"
    /\ \E llm \in LLMCalls(api_key) :
          LET args == StageArgs("agent3")
              answer == Agent3_process(args[1], args[2], args[3], api_key, llm)
          IN  /\ locals' = [locals EXCEPT !.final_answer = answer,
                                          !.calls = Append(@, StageCall("agent3", TRUE))]
              /\ result' = Result(answer, locals.sources)
    /\ outcome' = "returned"
    /\ pc' = "done"
    /\ UNCHANGED <<env, state, supersteps, populated, fault, thread_ids, checkpoints>>

\* an exception escapes the stage that is running and reaches the except clause
\* of the orchestrator
StageFault ==
    /\ pc \in {"agent1", "agent2", "agent3"}
    /\ \E e \in Exceptions :
          /\ fault' = e
          /\ IF Catches(e)
             THEN result' = handle_error(customer_query) /\ outcome' = "returned"
             ELSE result' = NoResult /\ outcome' = "raised"
    /\ locals' = [locals EXCEPT !.calls = Append(@, StageCall(pc, FALSE))]
    /\ pc' = "done"
    /\ UNCHANGED <<env, state, supersteps, populated, thread_ids, checkpoints>>

\* process_support_query of either orchestrator, from its own initial state
Next ==
    \/ CoordinatorNode
    \/ ToolsNode
    \/ GraphRaises
    \/ Agent1Stage
    \/ Agent2Stage
    \/ Agent3Stage
    \/ StageFault

Spec == Init /\ [][Next]_vars


----------------------------------------------------------------------------
(* The compiled graph run on any AgentState: every step, every combination  *)
(* of unset / empty / populated fields, with or without an earlier tool     *)
(* selection and transcript.                                                *)

FieldTexts == {None, <<>>, <<"text">>}

Transcripts ==
    { <<>>,
      <<SystemMessage>>,
      <<SystemMessage, CallMessage(2, "generate_customer_response"),
        ToolMessage(2, <<"answer">>)>> }

AgentStates ==
    [messages : Transcripts,
     original_query : Queries,
     technical_query : FieldTexts,
     sources : {<<>>, <<"docA">>},
     draft_solution : FieldTexts,
     final_answer : FieldTexts,
     current_step : StepSet,
     error : {None, <<"error">>},
     tool_to_run : ToolNames \cup {NoTool}]

GraphInit ==
    /\ InitEnv
    /\ customer_query = <<"drone">>
    /\ is_connected = TRUE
    /\ Len(store) = 3
    /\ system = "coordinator"
    /\ pc = "coordinator"
    /\ state \in AgentStates
    /\ state.original_query = customer_query
    /\ InitThreads

GraphNext ==
    \/ CoordinatorNode
    \/ ToolsNode
    \/ FinalizerNode
    \/ ReturnResult
    \/ GraphRaises

GraphSpec == GraphInit /\ [][GraphNext]_vars


----------------------------------------------------------------------------
(* The server: handle_support_query (src/app/main.py) hands every request   *)
(* to process_support_query of the one instance agentic_system.  The        *)
(* coroutine has no await in its body, so on the event loop a request runs  *)
(* to its return before the next one starts.                                *)

\* the next request arrives: lines 162-181 of process_support_query, up to the
\* first superstep of the stream it starts under its thread_id
NextRequest ==
    /\ pc = "done"
    /\ Len(thread_ids) < MaxRequests
    /\ \E q \in Queries :
          LET t == thread_id(q, SelfId)
              s == StreamStart(initial_state(q), checkpoints[t])
          IN  /\ customer_query' = q
              /\ thread_ids' = Append(thread_ids, t)
              /\ state' = s
              /\ checkpoints' = put(checkpoints, t, s, Len(thread_ids) + 1)
    /\ pc' = "coordinator"
    /\ supersteps' = 0
    /\ result' = NoResult
    /\ outcome' = "running"
    /\ populated' = TRUE
    /\ fault' = "none"
    /\ UNCHANGED <<system, api_key, is_connected, store, locals, search_call, stage_call,
                   http_request>>

ServerInit ==
    /\ Init
    /\ system = "coordinator"
    /\ is_connected = TRUE
    /\ Len(store) = 3

ServerNext ==
    \/ NextRequest
    \/ CoordinatorNode
    \/ ToolsNode
    \/ GraphRaises

ServerSpec == ServerInit /\ [][ServerNext]_vars


----------------------------------------------------------------------------
(* A direct call of DatabaseManager.search_documents(query, max_results) on *)
(* any collection: every scan order of documents that have no embedding,    *)
(* score below, at or above the threshold, with ties.                       *)

Scores == {29, 30, 62, 81}
DocNames == <<"docA", "docB", "docC", "docD", "docE">>

DocKinds == {Doc("", sc) : sc \in Scores} \cup {NoEmbeddingDoc("")}

\* the collections of up to MaxDocs documents; the i-th document scanned has
\* the content DocNames[i]
SearchStores ==
    UNION { { [i \in 1..n |-> [k[i] EXCEPT !.content = DocNames[i]]] :
                k \in [1..n -> DocKinds] } : n \in 0..MaxDocs }

\* the calls: with a limit of at least 1, or without one
SearchCalls ==
    { [given |-> TRUE, max_results |-> n, scan |-> "none", outcome |-> "called",
       results |-> <<>>, previous |-> <<>>] : n \in 1..MaxLimit }
    \cup {[NoSearch EXCEPT !.outcome = "called"]}

SearchInit ==
    /\ system = "retrieval"
    /\ customer_query = <<"app">>
    /\ api_key = FALSE
    /\ is_connected \in BOOLEAN
    /\ store \in SearchStores
    /\ search_call \in SearchCalls
    /\ pc = "search"
    /\ state = initial_state(customer_query)
    /\ locals = NoLocals
    /\ result = NoResult
    /\ outcome = "running"
    /\ supersteps = 0
    /\ populated = TRUE
    /\ fault = "none"
    /\ thread_ids = <<>>
    /\ checkpoints = MemorySaver
    /\ stage_call = NoStageCall
    /\ http_request = NoRequest

\* ghost: the outcome of a call, kept when the same call is made again
Earlier(call) ==
    IF call.outcome = "called" THEN call.previous
    ELSE Append(call.previous,
                [scan |-> call.scan, outcome |-> call.outcome, results |-> call.results])

\* variant: the result list is kept between calls and the scan appends to it
SearchDone_accumulating(call, docs, connected, scan) ==
    IF ~call.given /\ "MAX_SOURCES" \notin ConfigAttrs
    THEN [call EXCEPT !.outcome = "raised", !.scan = "none", !.results = <<>>,
                      !.previous = Earlier(call)]
    ELSE [call EXCEPT
             !.scan = IF connected THEN scan ELSE "none",
             !.outcome = "returned",
             !.results = IF connected /\ scan = "ok"
                         THEN Truncate(SortDesc(call.results \o AboveThreshold(docs)),
                                       call.max_results)
                         ELSE <<>>,
             !.previous = Earlier(call)]

\* the record of a call once search_documents has run.  Without a limit, line 95
\* reads config.MAX_SOURCES, which class Config does not define: the
\* AttributeError is raised before the try and reaches the caller.  scan is
\* what the embedding call and the collection scan did.
SearchDone(call, docs, connected, scan) ==
    IF ~call.given /\ "MAX_SOURCES" \notin ConfigAttrs
    THEN [call EXCEPT !.outcome = "raised", !.scan = "none", !.results = <<>>,
                      !.previous = Earlier(call)]
    ELSE [call EXCEPT
             !.scan = IF connected THEN scan ELSE "none",
             !.outcome = "returned",
             !.results = search_documents(docs, connected, scan, call.max_results),
             !.previous = Earlier(call)]

\* variant: a failed scan marks the manager as not connected
SearchCall_disconnecting ==
    /\ pc \in {"search", "searched"}
    /\ \E scan \in {"ok", "fail"} :
          /\ search_call' = SearchDone(search_call, store, is_connected, scan)
          /\ is_connected' = (is_connected /\ scan = "ok")
    /\ pc' = IF pc = "search" THEN "searched" ELSE "searched_again"
    /\ UNCHANGED <<system, customer_query, api_key, store, state, locals,
                   result, outcome, supersteps, populated, fault, thread_ids,
                   checkpoints, stage_call, http_request>>

\* search_documents from its call to its return; the caller may make the same
\* call once more.  The method assigns no attribute of the manager and only
\* reads the collection.
SearchCall ==
    /\ pc \in {"search", "searched"}
    /\ \E scan \in {"ok", "fail"} :
          search_call' = SearchDone(search_call, store, is_connected, scan)
    /\ pc' = IF pc = "search" THEN "searched" ELSE "searched_again"
    /\ UNCHANGED <<system, customer_query, api_key, is_connected, store, state, locals,
                   result, outcome, supersteps, populated, fault, thread_ids,
                   checkpoints, stage_call, http_request>>

SearchNext == SearchCall

SearchSpec == SearchInit /\ [][SearchNext]_vars


----------------------------------------------------------------------------
(* A direct call of one stage function of either orchestrator, on any       *)
(* arguments: the three process methods of src/agentWorkflow/agents.py and  *)
(* the four _run methods of src/agent/agent_tools.py.                       *)

StageFns == {"Agent1", "Agent2", "Agent3", "TriageQueryTool", "KnowledgeSearchTool",
             "DraftSolutionTool", "CustomerResponseTool"}

\* the source lists and drafts a caller may pass
StageSources == {<<>>, <<"docA">>, <<"docA", "docB">>}
StageDrafts == {<<>>, <<"draft">>}

StageCalls ==
    { [NoStageCall EXCEPT !.fn = f, !.query = q, !.draft = d, !.sources = src,
                          !.outcome = "called"] :
        f \in StageFns, q \in Queries, d \in StageDrafts, src \in StageSources }

StageInit ==
    /\ system = "stage"
    /\ customer_query = <<"app">>
    /\ api_key \in BOOLEAN
    /\ is_connected \in BOOLEAN
    /\ store \in Stores
    /\ search_call = NoSearch
    /\ pc = "stage"
    /\ state = initial_state(customer_query)
    /\ locals = NoLocals
    /\ result = NoResult
    /\ outcome = "running"
    /\ supersteps = 0
    /\ populated = TRUE
    /\ fault = "none"
    /\ thread_ids = <<>>
    /\ checkpoints = MemorySaver
    /\ stage_call \in StageCalls
    /\ http_request = NoRequest

\* ghost: the calls of db_manager.search_documents made by Agent2's process.
\* The argument config.MAX_SOURCES is evaluated first and raises, so the call
\* is not made.
Agent2_retrievals(technical_query, search) ==
    IF "MAX_SOURCES" \notin ConfigAttrs THEN <<>>
    ELSE <<[query |-> technical_query, results |-> search]>>

\* ghost: whether Agent2's process reaches self._call_openai
Agent2_invokes(search, key) ==
    "MAX_SOURCES" \in ConfigAttrs /\ search # <<>> /\ key

\* ghost: whether DraftSolutionTool._run reaches self.llm.invoke
DraftSolutionTool_invokes(sources, key) == sources # <<>> /\ key

\* the record of a stage call once the function has ended: it returned output
\* and sources_out, or an exception left it
StageDone(call, llm, scan, retrievals, invoked, output, sources_out) ==
    [call EXCEPT !.llm = llm, !.scan = scan, !.retrievals = retrievals,
                 !.invoked = invoked,
                 !.outcome = IF output = Raise \/ sources_out = Raise
                             THEN "raised" ELSE "returned",
                 !.output = output,
                 !.sources_out = sources_out]

StageFrame ==
    /\ pc' = "staged"
    /\ UNCHANGED <<system, customer_query, api_key, is_connected, store, search_call,
                   state, locals, result, outcome, supersteps, populated, fault,
                   thread_ids, checkpoints, http_request>>

RunAgent1 ==
    /\ pc = "stage" /\ stage_call.fn = "Agent1"
    /\ \E llm \in LLMCalls(api_key) :
          stage_call' = StageDone(stage_call, llm, "none", <<>>, api_key,
                                  Agent1_process(stage_call.query, api_key, llm),
                                  <<>>)
    /\ StageFrame

RunAgent2 ==
    /\ pc = "stage" /\ stage_call.fn = "Agent2"
    /\ \E llm \in LLMCalls(api_key), scan \in {"ok", "fail"} :
          LET search == search_documents(store, is_connected, scan, TOP_K)
              r == Agent2_process(stage_call.query, search, api_key, llm)
          IN  stage_call' = StageDone(stage_call, llm, scan,
                                      Agent2_retrievals(stage_call.query, search),
                                      Agent2_invokes(search, api_key),
                                      r.draft_solution, r.sources)
    /\ StageFrame

RunAgent3 ==
    /\ pc = "stage" /\ stage_call.fn = "Agent3"
    /\ \E llm \in LLMCalls(api_key) :
          stage_call' = StageDone(stage_call, llm, "none", <<>>, api_key,
                                  Agent3_process(stage_call.query, stage_call.draft,
                                                 stage_call.sources, api_key, llm),
                                  stage_call.sources)
    /\ StageFrame

RunTriageTool ==
    /\ pc = "stage" /\ stage_call.fn = "TriageQueryTool"
    /\ \E llm \in LLMCalls(api_key) :
          stage_call' = StageDone(stage_call, llm, "none", <<>>, api_key,
                                  TriageQueryTool_run(stage_call.query, api_key, llm),
                                  <<>>)
    /\ StageFrame

\* scan "raise": loop.run_until_complete raises instead of returning
RunSearchTool ==
    /\ pc = "stage" /\ stage_call.fn = "KnowledgeSearchTool"
    /\ \E scan \in {"ok", "fail", "raise"} :
          LET search == IF scan = "raise" THEN Raise
                        ELSE search_documents(store, is_connected, scan, ToolMaxResults)
              sources == KnowledgeSearchTool_run(search)
          IN  stage_call' = StageDone(stage_call, None, scan,
                                      <<[query |-> stage_call.query, results |-> search]>>,
                                      FALSE, JsonDumps(sources), sources)
    /\ StageFrame

RunDraftTool ==
    /\ pc = "stage" /\ stage_call.fn = "DraftSolutionTool"
    /\ \E llm \in LLMCalls(api_key) :
          stage_call' = StageDone(stage_call, llm, "none", <<>>,
                                  DraftSolutionTool_invokes(stage_call.sources, api_key),
                                  DraftSolutionTool_run(stage_call.query,
                                                        stage_call.sources, api_key, llm),
                                  stage_call.sources)
    /\ StageFrame

RunResponseTool ==
    /\ pc = "stage" /\ stage_call.fn = "CustomerResponseTool"
    /\ \E llm \in LLMCalls(api_key) :
          stage_call' = StageDone(stage_call, llm, "none", <<>>, api_key,
                                  CustomerResponseTool_run(stage_call.query,
                                                           stage_call.draft,
                                                           stage_call.sources,
                                                           api_key, llm),
                                  stage_call.sources)
    /\ StageFrame

StageNext ==
    \/ RunAgent1
    \/ RunAgent2
    \/ RunAgent3
    \/ RunTriageTool
    \/ RunSearchTool
    \/ RunDraftTool
    \/ RunResponseTool

StageSpec == StageInit /\ [][StageNext]_vars


----------------------------------------------------------------------------
(* The endpoint POST /support-query (src/app/main.py): FastAPI builds the    *)
(* SupportQuery from the body, handle_support_query hands its query to       *)
(* agentic_system.process_support_query and answers with the Result.         *)

\* the bodies a client may send: empty, whitespace only, a query, a query
\* with whitespace around it
Bodies == {<<>>, <<WS>>, <<WS, WS>>, <<"app">>, <<WS, "app", WS>>, <<"drone">>,
           <<"drone", WS>>}

\* SupportQuery(query=body): the query the model holds, or Raise for a
\* ValidationError.  min_length=1 rejects the empty text, validate_query a text
\* that is empty once stripped, and the value kept is the stripped text.
\* (max_length=1000 is beyond the bodies drawn here.)
SupportQuery(body) ==
    IF Len(body) < 1 THEN Raise
    ELSE IF Strip(body) = <<>> THEN Raise
    ELSE Strip(body)

EndpointInit ==
    /\ system = "coordinator"
    /\ customer_query = None
    /\ api_key \in BOOLEAN
    /\ is_connected \in BOOLEAN
    /\ store \in Stores
    /\ search_call = NoSearch
    /\ stage_call = NoStageCall
    /\ http_request \in {[body |-> b, status |-> "received"] : b \in Bodies}
    /\ pc = "request"
    /\ state = initial_state(None)
    /\ locals = NoLocals
    /\ result = NoResult
    /\ outcome = "running"
    /\ supersteps = 0
    /\ populated = TRUE
    /\ fault = "none"
    /\ thread_ids = <<>>
    /\ checkpoints = MemorySaver

\* process_support_query(query) is entered: lines 162-181, up to the first
\* superstep of the stream it starts under its thread_id
Orchestrate(query) ==
    LET t == thread_id(query, SelfId)
        s == StreamStart(initial_state(query), checkpoints[t])
    IN  /\ customer_query' = query
        /\ state' = s
        /\ thread_ids' = Append(thread_ids, t)
        /\ checkpoints' = put(checkpoints, t, s, Len(thread_ids) + 1)
        /\ pc' = "coordinator"
        /\ http_request' = [http_request EXCEPT !.status = "accepted"]
        /\ UNCHANGED <<system, api_key, is_connected, store, search_call, stage_call,
                       locals, result, outcome, supersteps, populated, fault>>

\* the request is answered with a client error and nothing else happens
Reject(status) ==
    /\ http_request' = [http_request EXCEPT !.status = status]
    /\ pc' = "responded"
    /\ UNCHANGED <<system, customer_query, api_key, is_connected, store, search_call,
                   stage_call, state, locals, result, outcome, supersteps, populated,
                   fault, thread_ids, checkpoints>>

\* variant: the body is handed to the orchestrator as it was received
handle_support_query_unvalidated ==
    /\ pc = "request"
    /\ Orchestrate(http_request.body)

\* the request from its arrival to the call of process_support_query: the
\* construction of the SupportQuery (422 on a ValidationError), then lines
\* 113-120 of the handler (400 when the query is empty once stripped)
handle_support_query ==
    /\ pc = "request"
    /\ LET query == SupportQuery(http_request.body)
       IN  IF query = Raise THEN Reject("422")
           ELSE IF Strip(query) = <<>> THEN Reject("400")
           ELSE Orchestrate(query)

\* process_support_query has ended: lines 122-138 of the handler
SendResponse ==
    /\ pc = "done"
    /\ http_request.status = "accepted"
    /\ http_request' = [http_request EXCEPT
                           !.status = IF outcome = "returned" THEN "200" ELSE "500"]
    /\ pc' = "responded"
    /\ UNCHANGED <<system, customer_query, api_key, is_connected, store, search_call,
                   stage_call, state, locals, result, outcome, supersteps, populated,
                   fault, thread_ids, checkpoints>>

EndpointNext ==
    \/ handle_support_query
    \/ CoordinatorNode
    \/ ToolsNode
    \/ GraphRaises
    \/ SendResponse

EndpointSpec == EndpointInit /\ [][EndpointNext]_vars


----------------------------------------------------------------------------
(* _update_state_from_messages applied to any transcript, as the finalizer   *)
(* (line 141) and process_support_query (line 187) apply it.                 *)

\* the longest transcript drawn
MaxEntries == 4

\* an assistant entry carrying two tool calls
CallsMessage(id1, name1, id2, name2) ==
    Msg("ai", <<[id |-> id1, name |-> name1], [id |-> id2, name |-> name2]>>, 0, <<>>)

\* the entries a transcript is made of
Entries ==
    { SystemMessage,
      CallMessage(1, "triage_query"),
      CallMessage(2, "triage_query"),
      CallMessage(2, "search_knowledge_base"),
      CallsMessage(1, "triage_query", 2, "triage_query"),
      ToolMessage(1, <<"a">>),
      ToolMessage(2, <<"b">>),
      ToolMessage(2, JsonDumps(<<"docA">>)) }

\* the ids of the calls an entry carries
CallIds(m) == {m.tool_calls[k].id : k \in 1..Len(m.tool_calls)}

\* a transcript the graph can build: every call id is issued once, every
\* result answers a call issued before it, and no call is answered twice
WellFormed(tr) ==
    /\ \A i, j \in 1..Len(tr) : i # j => CallIds(tr[i]) \cap CallIds(tr[j]) = {}
    /\ \A i \in 1..Len(tr) :
          tr[i].type = "tool" =>
              /\ \E j \in 1..(i - 1) : tr[i].tool_call_id \in CallIds(tr[j])
              /\ \A j \in 1..Len(tr) :
                    (j # i /\ tr[j].type = "tool") => tr[j].tool_call_id # tr[i].tool_call_id

FoldTranscripts ==
    UNION { {tr \in [1..n -> Entries] : WellFormed(tr)} : n \in 0..MaxEntries }

FoldInit ==
    /\ system = "coordinator"
    /\ customer_query = <<"app">>
    /\ api_key = FALSE
    /\ is_connected = TRUE
    /\ store = <<>>
    /\ search_call = NoSearch
    /\ stage_call = NoStageCall
    /\ http_request = NoRequest
    /\ pc = "fold"
    /\ \E tr \in FoldTranscripts :
          state = [initial_state(customer_query) EXCEPT !.messages = tr]
    /\ locals = NoLocals
    /\ result = NoResult
    /\ outcome = "running"
    /\ supersteps = 0
    /\ populated = TRUE
    /\ fault = "none"
    /\ thread_ids = <<>>
    /\ checkpoints = MemorySaver

\* final_state = self._update_state_from_messages(final_state)
FoldMessages ==
    /\ pc = "fold"
    /\ state' = update_state_from_messages(state)
    /\ pc' = "folded"
    /\ UNCHANGED <<env, locals, result, outcome, supersteps, populated, fault,
                   thread_ids, checkpoints>>

FoldNext == FoldMessages

FoldSpec == FoldInit /\ [][FoldNext]_vars


----------------------------------------------------------------------------
(* Properties *)

\* a field holds a value: neither None nor empty
IsSet(x) == x # None /\ x # <<>>

\* C1: the coordinator's process_support_query returns a non-empty final_answer
\* for every query and every outcome of the generative and retrieval calls.
C1_CoordinatorAnswerNonEmpty ==
    (system = "coordinator" /\ pc = "done") =>
        (outcome = "returned" /\ IsSet(result.final_answer))

\* a coordinator request has returned after at least one tool ran
C1_Witness ==
    system = "coordinator" /\ outcome = "returned" /\ Len(state.messages) >= 3

\* C2: the sequential process_support_query returns a non-empty final_answer for
\* every query and every outcome of the three stages.
C2_SequentialAnswerNonEmpty ==
    (system = "sequential" /\ pc = "done") =>
        (outcome = "returned" /\ IsSet(result.final_answer))

\* C3: neither process_support_query raises: each call returns a record
\* {final_answer, sources}, and when an exception reached the except clause the
\* record is the apology text with an empty source list.
C3_NeverRaises ==
    /\ outcome # "raised"
    /\ pc = "done" =>
          /\ outcome = "returned"
          /\ result.final_answer # None
          /\ result.sources # None
    /\ fault # "none" =>
          /\ result.sources = <<>>
          /\ result.final_answer = (IF system = "coordinator"
                                    THEN ApologyText ELSE SeqErrorText)

\* an exception reached the except clause of the sequential orchestrator after
\* the draft stage had run
C3_Witness ==
    system = "sequential" /\ pc = "done" /\ fault = "RuntimeError"
        /\ locals.draft_solution # None

\* what the retrieval engine returns for the request's store
Retrievable == search_documents(store, is_connected, "ok", ToolMaxResults)

\* C4: the returned sources is a sequence, and it is empty exactly when
\* retrieval has no document to return (stated for the requests that return
\* without any exception reaching the except clause).
C4_SourcesEmptyIffNothingRetrieved ==
    (pc = "done" /\ fault = "none") =>
        /\ result.sources # None
        /\ result.sources = <<>> <=> Retrievable = <<>>

\* C5: within a run, every change of current_step moves it to the immediate
\* successor in start < triaging < searching < drafting < finalizing < complete.
C5_StepNeverRegresses ==
    [][ Rank(state'.current_step) \in
            {Rank(state.current_step), Rank(state.current_step) + 1} ]_vars

\* a run that started before "finalizing" has advanced to "complete"
C5_Witness == state.current_step = "complete" /\ supersteps >= 3

\* the fields every step up to the current one requires are set
StepFieldsSet(s) ==
    /\ s.current_step \in {"searching", "drafting", "finalizing", "complete"}
          => IsSet(s.technical_query)
    /\ s.current_step \in {"drafting", "finalizing", "complete"} => s.sources # <<>>
    /\ s.current_step \in {"finalizing", "complete"} => IsSet(s.draft_solution)
    /\ s.current_step = "complete" => IsSet(s.final_answer)

\* C6: the coordinator loop never moves current_step past a step whose required
\* field is unset: from a state in which the fields required up to current_step
\* are set, every step of the loop leads to such a state (the initial state, at
\* "start", requires nothing).
C6_StepNeverPassesUnsetField ==
    [][ (pc \in {"coordinator", "tools"} /\ StepFieldsSet(state))
            => StepFieldsSet(state') ]_vars

\* the loop has advanced over several steps to "complete" with every field set
C6_Witness ==
    /\ state.current_step = "complete"
    /\ supersteps >= 3
    /\ pc = "finalizer"
    /\ StepFieldsSet(state)

LastResultFolded(s) ==
    LET n == Len(s.messages)
    IN  (n >= 2 /\ s.messages[n].type = "tool" /\ s.messages[n - 1].tool_calls # <<>>)
            => ApplyToolResult(s, MatchingCall(s.messages[n - 1],
                                               s.messages[n].tool_call_id),
                               s.messages[n].content) = s

\* C8: when a coordinator cycle starts, the result of the action dispatched
\* before it has been folded into the field it produces.
C8_ResultFoldedBeforeNextCycle ==
    (system = "coordinator" /\ pc = "coordinator") => LastResultFolded(state)

\* the transition table of the coordinator: <<new current_step, next action>>
TableDecision(s) ==
    CASE s.current_step = "start" -> <<"triaging", "triage_query">>
      [] s.current_step = "triaging" ->
            IF IsSet(s.technical_query) THEN <<"searching", "search_knowledge_base">>
            ELSE <<"triaging", "triage_query">>
      [] s.current_step = "searching" ->
            IF IsSet(s.sources) THEN <<"drafting", "generate_draft_solution">>
            ELSE <<"searching", "search_knowledge_base">>
      [] s.current_step = "drafting" ->
            IF IsSet(s.draft_solution) THEN <<"finalizing", "generate_customer_response">>
            ELSE <<"drafting", "generate_draft_solution">>
      [] s.current_step = "finalizing" ->
            IF IsSet(s.final_answer) THEN <<"complete", NoTool>>
            ELSE <<"finalizing", "generate_customer_response">>

\* C9: one coordinator cycle computes (new current_step, next action) from
\* current_step and the populated fields exactly as the transition table.
C9_CycleFollowsTable ==
    [][ (pc = "coordinator" /\ supersteps' = supersteps + 1
            /\ state.current_step # "complete")
            => <<state'.current_step, state'.tool_to_run>> = TableDecision(state) ]_vars

\* C10: a run from "start" in which every dispatched action produced its output
\* ends with current_step = "complete".
C10_RunReachesComplete ==
    (system = "coordinator" /\ pc = "done" /\ populated
        /\ fault = GraphRecursionError)
        => state.current_step = "complete"

\* the effect of the finalizer on final_answer and sources, from the state s the
\* node received to the state t it returned
FinalizerEffect(s, t) ==
    IF IsSet(s.error)
    THEN t.final_answer = ApologyText /\ t.sources = <<>>
    ELSE IF ~IsSet(s.final_answer)
    THEN t.final_answer = NotFoundText /\ t.sources = s.sources
    ELSE t.final_answer = s.final_answer /\ t.sources = s.sources

\* C11: a run returns through the graph only after the finalizer ran, the
\* finalizer runs once (it is entered from the coordinator and left for END, never
\* re-entered), and its effect on the state it receives is: error set -> apology
\* and no sources; else final_answer unset -> the "couldn't find" text, sources
\* unchanged; else final_answer and sources unchanged.
C11_FinalizerOnceWithEffect ==
    [][ /\ (pc' = "done" /\ fault' = "none" /\ system = "coordinator") => pc = "end"
        /\ pc' = "end" => pc = "finalizer"
        /\ pc = "finalizer" => pc' \in {"end", "done"}
        /\ pc = "end" => pc' = "done"
        /\ (pc = "finalizer" /\ pc' = "end") => FinalizerEffect(state, state') ]_vars

\* C12: any two distinct requests of the coordinator stream under different
\* checkpoint identifiers, also when they carry the same query text.
C12_ThreadIdUniquePerRequest ==
    \A i, j \in 1..Len(thread_ids) : i # j => thread_ids[i] # thread_ids[j]

\* C13: what the checkpointer holds under a thread is read and written by one
\* request only: no thread has been saved to by the runs of two requests.
C13_CheckpointOwnedByOneRequest ==
    \A t \in ThreadIds : Cardinality(checkpoints[t].writers) <= 1

\* the WorkflowState fields of two states agree
SameWorkflowState(s, t) ==
    /\ s.current_step = t.current_step
    /\ s.technical_query = t.technical_query
    /\ s.sources = t.sources
    /\ s.draft_solution = t.draft_solution
    /\ s.final_answer = t.final_answer

\* C14: an execution started under a checkpoint identifier that already has
\* recorded steps continues from the last recorded state, not from "start" with
\* every field unset.
C14_ResumesFromCheckpoint ==
    [][ (Len(thread_ids') = Len(thread_ids) + 1
            /\ checkpoints[thread_ids'[Len(thread_ids')]].writers # {})
          => SameWorkflowState(state', checkpoints[thread_ids'[Len(thread_ids')]].state)
      ]_vars

StageOrder == <<"agent1", "agent2", "agent3">>

\* C15: a sequential request calls triage, draft, humanize in that order, each
\* at most once and the next only after the one before has returned; the draft
\* stage receives the technical query triage returned, the humanize stage the
\* original query with the draft and the sources the draft stage returned; a
\* request that ends without an exception has called all three.
C15_StagesInOrderOnce ==
    system = "sequential" =>
        LET c == locals.calls
        IN  /\ Len(c) <= 3
            /\ \A i \in 1..Len(c) :
                  /\ c[i].stage = StageOrder[i]
                  /\ i < Len(c) => c[i].returned
            /\ pc \in {"agent1", "agent2", "agent3"} =>
                  /\ StageOrder[Len(c) + 1] = pc
                  /\ \A i \in 1..Len(c) : c[i].returned
            /\ (pc = "done" /\ fault = "none") => (Len(c) = 3 /\ c[3].returned)
            /\ Len(c) >= 1 => c[1].args = <<customer_query>>
            /\ Len(c) >= 2 => c[2].args = <<locals.technical_query>>
            /\ Len(c) >= 3 => c[3].args = <<customer_query, locals.draft_solution,
                                            locals.sources>>

\* the three stages have run and the request returned their result
C15_Witness ==
    /\ system = "sequential"
    /\ pc = "done"
    /\ fault = "none"
    /\ Len(locals.calls) = 3
    /\ locals.calls[2].args # locals.calls[1].args
    /\ result.final_answer = locals.final_answer

\* C16: when a stage raises, no later stage is called and the request returns
\* the fixed apology with an empty source list, whatever sources the draft
\* stage had returned.
C16_StageFaultGivesFallback ==
    (system = "sequential" /\ locals.calls # <<>>
        /\ ~locals.calls[Len(locals.calls)].returned)
        => /\ pc = "done"
           /\ outcome = "returned"
           /\ result = [final_answer |-> SeqErrorText, sources |-> <<>>]
           /\ \A i \in 1..(Len(locals.calls) - 1) : locals.calls[i].returned

\* the humanize stage raised after the draft stage had returned
C16_Witness ==
    /\ system = "sequential"
    /\ Len(locals.calls) = 3
    /\ ~locals.calls[3].returned
    /\ locals.draft_solution # None
    /\ result.sources = <<>>

\* a call with a limit has returned
Searched == pc = "searched" /\ search_call.given /\ search_call.outcome = "returned"
\* ... from a connected collection whose scan succeeded
SearchedStore == Searched /\ is_connected /\ search_call.scan = "ok"

\* the scan positions of the documents at or above the threshold
Qualifying ==
    {i \in 1..Len(store) : store[i].embedding /\ store[i].similarity >= SIMILARITY_THRESHOLD}

\* the scan position of the document a result was made from
Pos(r) == CHOOSE i \in 1..Len(store) : store[i].content = r.content

Returned == {Pos(search_call.results[k]) : k \in 1..Len(search_call.results)}

Min(a, b) == IF a < b THEN a ELSE b

\* C17: on a connected store, search_documents returns documents at or above
\* the threshold only, each once and with its own similarity, the best
\* min(limit, number of such documents) of them, in descending similarity; for
\* scores 81, 62, 29 and limit 5 it returns the first two in that order.
C17_ReturnsBestAboveThreshold ==
    SearchedStore =>
        LET rs == search_call.results
        IN  /\ \A k \in 1..Len(rs) :
                  /\ \E i \in Qualifying : store[i].content = rs[k].content
                  /\ rs[k].similarity = store[Pos(rs[k])].similarity
            /\ \A k, l \in 1..Len(rs) : k # l => rs[k].content # rs[l].content
            /\ Len(rs) = Min(search_call.max_results, Cardinality(Qualifying))
            /\ \A i \in Qualifying \ Returned :
                  \A k \in 1..Len(rs) : rs[k].similarity >= store[i].similarity
            /\ \A k \in 1..(Len(rs) - 1) : rs[k].similarity >= rs[k + 1].similarity
            /\ (store = <<Doc("docA", 81), Doc("docB", 62), Doc("docC", 29)>>
                    /\ search_call.max_results = 5)
                  => rs = <<[content |-> "docA", similarity |-> 81],
                            [content |-> "docB", similarity |-> 62]>>

\* the scenario: scores 81, 62, 29, limit 5, two results
C17_Witness ==
    /\ SearchedStore
    /\ store = <<Doc("docA", 81), Doc("docB", 62), Doc("docC", 29)>>
    /\ search_call.max_results = 5
    /\ Len(search_call.results) = 2

\* C18: the result of search_documents is never longer than the limit, and it
\* is exactly limit long when a connected store holds at least limit documents
\* at or above the threshold.
C18_LengthRespectsLimit ==
    Searched =>
        /\ Len(search_call.results) <= search_call.max_results
        /\ (SearchedStore /\ Cardinality(Qualifying) >= search_call.max_results)
              => Len(search_call.results) = search_call.max_results

\* more documents qualify than the limit allows, and the result is cut
C18_Witness ==
    /\ SearchedStore
    /\ Cardinality(Qualifying) > search_call.max_results
    /\ Len(search_call.results) = search_call.max_results

\* C19: the similarities of a result sequence never increase along it.
C19_SimilarityNonIncreasing ==
    Searched =>
        \A k \in 1..(Len(search_call.results) - 1) :
            search_call.results[k].similarity >= search_call.results[k + 1].similarity

\* the scan met the documents in ascending order of score and the result has
\* the better one first
C19_Witness ==
    /\ SearchedStore
    /\ Len(search_call.results) >= 2
    /\ search_call.results[1].similarity > search_call.results[2].similarity
    /\ Pos(search_call.results[1]) > Pos(search_call.results[2])

\* C20: results of equal similarity are in scan order, and when the limit cuts
\* between documents of equal similarity the ones scanned earlier are kept.
C20_TiesInScanOrder ==
    SearchedStore =>
        LET rs == search_call.results
        IN  /\ \A k, l \in 1..Len(rs) :
                  (k < l /\ rs[k].similarity = rs[l].similarity) => Pos(rs[k]) < Pos(rs[l])
            /\ \A i \in Qualifying \ Returned :
                  \A k \in 1..Len(rs) :
                      rs[k].similarity = store[i].similarity => Pos(rs[k]) < i

\* two documents of equal score were returned and a third of the same score
\* was cut by the limit
C20_Witness ==
    /\ SearchedStore
    /\ Len(search_call.results) = 2
    /\ search_call.results[1].similarity = search_call.results[2].similarity
    /\ \E i \in Qualifying \ Returned :
          store[i].similarity = search_call.results[2].similarity

\* the same call has been made twice
SearchedAgain == pc = "searched_again" /\ Len(search_call.previous) = 1

\* C21: two calls of search_documents with the same query and limit, on an
\* unchanged store and connection and with the embedding call and the scan
\* behaving alike, return the same ordered sequence: the first call does not
\* change what the second returns.
C21_SearchIdempotent ==
    (SearchedAgain /\ search_call.previous[1].scan = search_call.scan)
        => /\ search_call.outcome = search_call.previous[1].outcome
           /\ search_call.results = search_call.previous[1].results

\* both calls returned the same two or more documents
C21_Witness ==
    /\ SearchedAgain
    /\ search_call.given
    /\ search_call.scan = "ok"
    /\ search_call.previous[1].scan = "ok"
    /\ Len(search_call.results) >= 2
    /\ search_call.results = search_call.previous[1].results

\* C22: search_documents never raises to its caller, and with an empty store,
\* a store that is not connected, a failing embedding call or a failing scan
\* it returns the empty sequence.
C22_SearchNeverRaises ==
    pc \in {"searched", "searched_again"} =>
        /\ search_call.outcome = "returned"
        /\ (store = <<>> \/ ~is_connected \/ search_call.scan = "fail")
              => search_call.results = <<>>

\* C23: a call without a limit returns what the call with a default limit of
\* at least 1 returns.
C23_DefaultLimitUsed ==
    (pc = "searched" /\ ~search_call.given) =>
        /\ search_call.outcome = "returned"
        /\ \E d \in 1..MaxLimit, scan \in {"ok", "fail"} :
              search_call.results = search_documents(store, is_connected, scan, d)

\* C24: no call of search_documents, whether it returns results, returns
\* nothing, fails or raises, changes the documents of the store or the
\* manager's connection state.
C24_SearchLeavesStoreUnchanged ==
    [][ (pc \in {"search", "searched"} /\ pc' # pc)
            => (store' = store /\ is_connected' = is_connected) ]_vars

\* a second call has followed a call whose scan failed, on a connected store
\* that holds documents
C24_Witness ==
    /\ SearchedAgain
    /\ is_connected
    /\ store # <<>>
    /\ search_call.previous[1].scan = "fail"
    /\ search_call.scan = "ok"
    /\ search_call.results # <<>>


\* the stage function fn has been called directly and has returned
Staged(fn) == pc = "staged" /\ stage_call.fn = fn

\* the generative capability is unavailable, or its call failed
GenerativeDown == ~api_key \/ stage_call.llm = Raise

\* text names part: part occurs in text as a run of consecutive pieces
Names(text, part) ==
    \E i \in 1..(Len(text) - Len(part) + 1) :
        SubSeq(text, i, i + Len(part) - 1) = part

\* what the retrieval engine gives the sequential draft stage for this call
StageSearch == search_documents(store, is_connected, stage_call.scan, TOP_K)

\* C25: the sequential draft stage calls the retrieval engine exactly once, with
\* its technical_query, and returns as sources the contents of the retrieved
\* results, same length and same order.
C25_ExpertCallsRetrievalOnce ==
    Staged("Agent2") =>
        /\ Len(stage_call.retrievals) = 1
        /\ stage_call.retrievals[1].query = stage_call.query
        /\ stage_call.sources_out = Contents(stage_call.retrievals[1].results)

\* C26: Agent1's process returns the wrapper "Technical support query
\* regarding: <query>" whenever the generative capability is unavailable or its
\* call fails.
C26_SequentialTriageFallback ==
    (Staged("Agent1") /\ GenerativeDown) =>
        /\ stage_call.output = <<"Technical support query regarding: ">> \o stage_call.query
        /\ Names(stage_call.output, stage_call.query)

\* C27: TriageQueryTool._run returns, without raising, the wrapper "Technical
\* support query regarding: <query>" whenever the generative capability is
\* unavailable or its call raises.
C27_TriageToolFallback ==
    (Staged("TriageQueryTool") /\ GenerativeDown) =>
        /\ stage_call.outcome = "returned"
        /\ stage_call.output = <<"Technical support query regarding: ">> \o stage_call.query
        /\ Names(stage_call.output, stage_call.query)

\* C27's case: the tool has a model, the call raised, and the wrapper came back
C27_Witness ==
    /\ Staged("TriageQueryTool")
    /\ api_key /\ stage_call.llm = Raise
    /\ stage_call.invoked
    /\ stage_call.output = <<"Technical support query regarding: ">> \o stage_call.query

\* C28: in both draft stages, when retrieval yields no sources the stage returns
\* the fixed "unable to find specific information" message with an empty source
\* list and does not call the generative capability.
C28_NoSourcesFixedMessage ==
    /\ (Staged("DraftSolutionTool") /\ stage_call.sources = <<>>) =>
          /\ stage_call.output = NoSourcesText
          /\ stage_call.sources_out = <<>>
          /\ ~stage_call.invoked
    /\ (Staged("Agent2") /\ StageSearch = <<>>) =>
          /\ stage_call.output = NoSourcesText
          /\ stage_call.sources_out = <<>>
          /\ ~stage_call.invoked

\* C29: Agent2's process, when retrieval has n >= 1 sources for it and the
\* generative capability is unavailable or fails, returns a non-empty draft
\* naming the technical query and n, and sources holding all n sources.
C29_ExpertFallbackKeepsSources ==
    (Staged("Agent2") /\ Len(StageSearch) >= 1 /\ GenerativeDown) =>
        /\ IsSet(stage_call.output)
        /\ Names(stage_call.output, stage_call.query)
        /\ Names(stage_call.output, Num(Len(StageSearch)))
        /\ stage_call.sources_out = Contents(StageSearch)

\* C30: DraftSolutionTool._run, called with n >= 1 sources while the generative
\* capability is unavailable or its call raises, returns a text naming the
\* technical query and n.
C30_DraftToolFallbackNamesCount ==
    (Staged("DraftSolutionTool") /\ stage_call.sources # <<>> /\ GenerativeDown) =>
        /\ Names(stage_call.output, stage_call.query)
        /\ Names(stage_call.output, Num(Len(stage_call.sources)))

\* C31: Agent3's process, whenever the generative capability is unavailable or
\* its call fails, returns a wrapper text that embeds the original query and
\* the draft_solution text.
C31_SequentialHumanizeFallback ==
    (Staged("Agent3") /\ GenerativeDown) =>
        /\ IsSet(stage_call.output)
        /\ Names(stage_call.output, stage_call.query)
        /\ Names(stage_call.output, stage_call.draft)
        /\ stage_call.output # stage_call.draft

\* C32: CustomerResponseTool._run, whenever the generative capability is
\* unavailable or its call raises, returns a wrapper text that embeds the
\* original query and the draft_solution text.
C32_ResponseToolFallback ==
    (Staged("CustomerResponseTool") /\ GenerativeDown /\ stage_call.draft # <<>>) =>
        /\ IsSet(stage_call.output)
        /\ Names(stage_call.output, stage_call.query)
        /\ Names(stage_call.output, stage_call.draft)
        /\ stage_call.output # stage_call.draft

\* a str value: neither None nor an exception
IsText(x) == x # None /\ x # Raise

\* C35: every stage function returns a value of its result type, a text and
\* for the draft and search stages a source list, for every outcome of the
\* generative call, the embedding call and the store scan; none raises.
C35_StagesNeverRaise ==
    pc = "staged" =>
        /\ stage_call.outcome = "returned"
        /\ IsText(stage_call.output)
        /\ stage_call.sources_out # Raise
        /\ stage_call.sources_out # None

\* C35's case: the provider failed during the humanize stage, which returned
C35_Witness ==
    /\ Staged("Agent3")
    /\ api_key /\ stage_call.invoked /\ stage_call.llm = Raise
    /\ stage_call.outcome = "returned"
    /\ IsText(stage_call.output)

\* C33: a sequential request served without the generative capability while
\* retrieval has 2 sources for it: the draft reports 2 sources, the final answer
\* is the humanize fallback wrapping that draft, and the Result's sources holds
\* the 2 sources.
C33_TwoSourcesSurviveGenerativeFailure ==
    (system = "sequential" /\ pc = "done" /\ fault = "none"
        /\ ~api_key /\ Len(Retrievable) = 2) =>
        /\ Names(locals.draft_solution, Num(2))
        /\ result.final_answer = Agent3_mock_response(customer_query, locals.draft_solution)
        /\ result.sources = Contents(Retrievable)

\* the technical query a finished request worked with
RequestTechnicalQuery ==
    IF system = "coordinator" THEN state.technical_query ELSE locals.technical_query

\* C34: a request served without the generative capability on an empty store
\* ends with technical_query the triage fallback for the query, sources empty,
\* and a non-empty final_answer that contains the original query.
C34_UnavailableAndEmptyStore ==
    (system \in {"coordinator", "sequential"} /\ pc = "done"
        /\ fault \notin Exceptions /\ ~api_key /\ store = <<>>) =>
        /\ outcome = "returned"
        /\ RequestTechnicalQuery = TriageFallbackText(customer_query)
        /\ result.sources = <<>>
        /\ IsSet(result.final_answer)
        /\ Names(result.final_answer, customer_query)

\* the body is empty or whitespace only
Blank(body) == Strip(body) = <<>>

\* C36: a request whose query is empty or whitespace only is answered with a
\* client error and process_support_query is never entered for it: no thread,
\* no checkpoint, no superstep, no transcript entry, no stage or retrieval call.
C36_BlankQueryRejected ==
    (http_request.status # "none" /\ Blank(http_request.body)) =>
        /\ http_request.status \in {"received", "422", "400"}
        /\ pc = "responded" => http_request.status \in {"422", "400"}
        /\ pc \in {"request", "responded"}
        /\ customer_query = None
        /\ thread_ids = <<>>
        /\ checkpoints = MemorySaver
        /\ supersteps = 0
        /\ state.messages = <<>>
        /\ locals.calls = <<>>
        /\ search_call = NoSearch
        /\ stage_call = NoStageCall
        /\ result = NoResult

\* C36's case: a whitespace-only body has been answered with a client error
C36_Witness ==
    /\ http_request.body = <<WS, WS>>
    /\ pc = "responded"
    /\ http_request.status = "422"
    /\ thread_ids = <<>>

\* a coordinator cycle is being taken
Cycle == pc = "coordinator" /\ supersteps' = supersteps + 1

\* the cycle from s to t leaves the six data fields alone and at most puts the
\* system entry in front of the transcript
CycleFrame(s, t) ==
    /\ t.original_query = s.original_query
    /\ t.technical_query = s.technical_query
    /\ t.sources = s.sources
    /\ t.draft_solution = s.draft_solution
    /\ t.final_answer = s.final_answer
    /\ t.error = s.error
    /\ t.messages \in {s.messages, <<SystemMessage>> \o s.messages}

\* s and t agree on which of the four produced fields are populated
SamePopulated(s, t) ==
    /\ IsSet(s.technical_query) <=> IsSet(t.technical_query)
    /\ IsSet(s.sources) <=> IsSet(t.sources)
    /\ IsSet(s.draft_solution) <=> IsSet(t.draft_solution)
    /\ IsSet(s.final_answer) <=> IsSet(t.final_answer)

\* the states that differ from s in their produced fields and earlier selection
Alike(s) ==
    { [s EXCEPT !.technical_query = a, !.sources = b, !.draft_solution = c,
                !.final_answer = d, !.tool_to_run = e] :
        a \in FieldTexts, b \in {<<>>, <<"docA">>}, c \in FieldTexts,
        d \in FieldTexts, e \in ToolNames \cup {NoTool} }

\* C37: a coordinator cycle changes only current_step and the selected action
\* (and the leading system entry of the transcript), and a cycle on any state
\* that agrees with this one on current_step and on which fields are populated
\* selects the same action and the same new current_step.
C37_CycleIsPureDecision ==
    [][ (Cycle /\ state.current_step # "complete") =>
            /\ CycleFrame(state, state')
            /\ \A t \in Alike(state) :
                  SamePopulated(t, state) =>
                      /\ coordinator_agent(t).current_step = state'.current_step
                      /\ coordinator_agent(t).tool_to_run = state'.tool_to_run ]_vars

\* the action a step dispatches
StepAction(step) ==
    CASE step = "triaging" -> "triage_query"
      [] step = "searching" -> "search_knowledge_base"
      [] step = "drafting" -> "generate_draft_solution"
      [] step = "finalizing" -> "generate_customer_response"

\* C38: in every state at an active step, whatever its field holds, a
\* coordinator cycle either advances current_step to the next step or keeps the
\* step and selects the step's own action; it is never a no-op that leaves an
\* earlier selection in place.
C38_DecisionTotalOnActiveSteps ==
    [][ (Cycle /\ state.current_step \in {"triaging", "searching", "drafting", "finalizing"}) =>
            \/ Rank(state'.current_step) = Rank(state.current_step) + 1
            \/ /\ state'.current_step = state.current_step
               /\ state'.tool_to_run = StepAction(state.current_step) ]_vars

\* the entries of transcript tr that the fold's window covers
InWindow(tr) == {i \in 1..Len(tr) : i > Len(tr) - FoldWindow}

\* the name of the call, issued before entry i, that the result at i answers
OriginCall(tr, i) ==
    LET hits == {<<j, k>> \in (1..(i - 1)) \X (1..2) :
                    /\ k <= Len(tr[j].tool_calls)
                    /\ tr[j].tool_calls[k].id = tr[i].tool_call_id}
    IN  IF tr[i].type # "tool" \/ hits = {} THEN NoTool
        ELSE LET h == CHOOSE h \in hits : TRUE IN tr[h[1]].tool_calls[h[2]].name

\* the results of the window that belong in the field of tool name
ResultsFor(tr, name) == {i \in InWindow(tr) : OriginCall(tr, i) = name}

\* C39: after the fold, for every tool that has a result in the window whose
\* call was issued earlier in the transcript, the tool's field holds the most
\* recent such result.
C39_FoldReflectsMostRecentResults ==
    pc = "folded" =>
        \A name \in ToolNames :
            LET rs == ResultsFor(state.messages, name)
            IN  rs # {} =>
                   LET i == CHOOSE i \in rs : \A j \in rs : j <= i
                   IN  state[FieldOf(name)] =
                          ApplyToolResult(state, name, state.messages[i].content)[FieldOf(name)]

====
